---- MODULE Spec2Model ----
(***************************************************************************)
(* A model of the game-solver engine (src/src/lib.rs: negamax, solve,      *)
(* move_scores, the HashMap transposition table) playing the game of Nim   *)
(* (src/crates/games/src/nim/mod.rs).                                      *)
(*                                                                         *)
(* A Nim state is the record [heaps, move_count, max_score] of struct Nim. *)
(* A move is the pair <<heap, amount>> with the heap index counted from 0  *)
(* as in the source.  Scores are i32 / u32 in the source; every value of   *)
(* the model stays within -MaxObjects-1 .. MaxObjects+1, far from the      *)
(* width, so the integers are unbounded here.                              *)
(***************************************************************************)
EXTENDS Integers, Sequences, FiniteSets, TLC

\* Bounds of the model: the heaps handed to Nim::new are one or two heaps (or
\* none) holding at most MaxObjects objects in total; make_move is tried at most
\* MaxCount times on one game when arbitrary moves are fed to it; at most
\* MaxCalls calls of solve and move_scores share one table before the caller
\* replaces it.
MaxObjects == 4
MaxCount == 3
MaxCalls == 3

VARIABLES
    game,    \* the caller's Nim state
    table,   \* the caller's transposition table (a HashMap)
    pc,      \* "idle" | "solve" (inside solve's loop) | "iter" (a move_scores
             \* iterator is alive) | "par" (the parallel evaluator is running)
    alpha,   \* solve's local alpha while pc = "solve"
    beta,    \* solve's local beta while pc = "solve"
    out,     \* what the last operation returned, tagged by out.op
    calls    \* the calls of solve and move_scores made on the current table

vars == <<game, table, pc, alpha, beta, out, calls>>

----------------------------------------------------------------------------
\* Sequence helpers.

RECURSIVE SumSeq(_)
SumSeq(s) == IF s = <<>> THEN 0 ELSE Head(s) + SumSeq(Tail(s))

Range(s) == {s[i] : i \in 1..Len(s)}

MinOf(S) == CHOOSE x \in S : \A y \in S : x <= y

----------------------------------------------------------------------------
\* Nim (src/crates/games/src/nim/mod.rs).

\* Nim::new: move_count 0, max_score the sum of the heaps.
NimNew(heaps) ==
    [heaps |-> heaps, move_count |-> 0, max_score |-> SumSeq(heaps)]

\* Nim::make_move: the returned flag and the state after the call.
make_move(g, m) ==
    LET heap == m[1]
        amount == m[2]
    IN  IF heap >= Len(g.heaps)
        THEN [ok |-> FALSE, g |-> g]
        ELSE IF amount > g.heaps[heap + 1]
        THEN [ok |-> FALSE, g |-> g]
        ELSE [ok |-> TRUE,
              g  |-> [g EXCEPT !.heaps[heap + 1] = @ - amount,
                               !.move_count = @ + 1]]

\* Nim::possible_moves: heap by heap, amounts 1..=heap, in that order.
RECURSIVE MovesFrom(_, _)
MovesFrom(heaps, i) ==
    IF i > Len(heaps) THEN <<>>
    ELSE [j \in 1..heaps[i] |-> <<i - 1, j>>] \o MovesFrom(heaps, i + 1)

possible_moves(g) == MovesFrom(g.heaps, 1)

\* Nim::is_winning_move: Some(player) exactly when the next player has no move.
is_winning_move(g, m) == possible_moves(make_move(g, m).g) = <<>>

\* Nim::is_draw.
is_draw(g) == FALSE

\* Game::max_score, Game::min_score and Game::score for Nim.  The trait of
\* src/src/lib.rs declares them; Nim's bodies are not in the sources at hand.
\* score is "the size minus the number of moves" (lib.rs line 43), max_score
\* the field of that name, min_score its negation.
max_score(g) == g.max_score

min_score(g) == 0 - g.max_score

score(g) == g.max_score - g.move_count

----------------------------------------------------------------------------
\* The transposition table (src/src/lib.rs, lines 69-90).  An Option<i32> is
\* a sequence of length 0 (None) or 1 (Some).  A table is the record
\* [kind, map, ins]: kind names the backend behind the dyn reference, map is
\* the HashMap's contents, and ins remembers every state ever passed to
\* insert (history kept for the properties, never read by the engine).

EmptyMap == [x \in {} |-> 0]

\* impl TranspositionTable for HashMap: get.
HashGet(map, board) ==
    IF board \in DOMAIN map THEN <<map[board]>> ELSE <<>>

\* A HashMap whose insert forgets what it held (eviction).
HashInsertEvicting(map, board, sc) == [x \in {board} |-> sc]

\* impl TranspositionTable for HashMap: insert.
HashInsert(map, board, sc) ==
    [x \in (DOMAIN map) \cup {board} |-> IF x = board THEN sc ELSE map[x]]

\* impl TranspositionTable for HashMap: has.
HashHas(map, board) == board \in DOMAIN map

\* A fresh HashMap, and the backend that stores nothing (get always absent).
EmptyTable == [kind |-> "hash", map |-> EmptyMap, ins |-> {}]

NullTable == [kind |-> "null", map |-> EmptyMap, ins |-> {}]

\* The three methods of trait TranspositionTable, dispatched on the backend.
Get(tt, board) ==
    IF tt.kind = "hash" THEN HashGet(tt.map, board) ELSE <<>>

Insert(tt, board, sc) ==
    [kind |-> tt.kind,
     map  |-> IF tt.kind = "hash" THEN HashInsert(tt.map, board, sc) ELSE tt.map,
     ins  |-> tt.ins \cup {board}]

Has(tt, board) ==
    IF tt.kind = "hash" THEN HashHas(tt.map, board) ELSE FALSE

----------------------------------------------------------------------------
\* negamax (src/src/lib.rs, lines 97-145).  It returns [r, tt]: the value and
\* the table after the call.

RECURSIVE negamax(_, _, _, _)
RECURSIVE SearchMoves(_, _, _, _, _, _)

\* Lines 107-113: the indices of the moves that win at once.
WinningMoves(g, moves) ==
    {i \in 1..Len(moves) : is_winning_move(g, moves[i])}

\* Lines 127-144 with the child's value taken without the negation.
SearchMovesNoNegate(g, moves, i, tt, a, b) ==
    IF i > Len(moves)
    THEN [r |-> a, tt |-> Insert(tt, g, a)]
    ELSE LET board == make_move(g, moves[i]).g
             child == negamax(board, tt, 0 - b, 0 - a)
             sc    == child.r
         IN  IF sc >= b
             THEN [r |-> b, tt |-> child.tt]
             ELSE SearchMoves(g, moves, i + 1, child.tt,
                              IF sc > a THEN sc ELSE a, b)

\* Lines 127-144 with the table also written when the loop is cut off.
SearchMovesStoreOnCut(g, moves, i, tt, a, b) ==
    IF i > Len(moves)
    THEN [r |-> a, tt |-> Insert(tt, g, a)]
    ELSE LET board == make_move(g, moves[i]).g
             child == negamax(board, tt, 0 - b, 0 - a)
             sc    == 0 - child.r
         IN  IF sc >= b
             THEN [r |-> b, tt |-> Insert(child.tt, g, b)]
             ELSE SearchMoves(g, moves, i + 1, child.tt,
                              IF sc > a THEN sc ELSE a, b)

\* Lines 127-144: the loop over the moves from the i-th on, then the insert.
SearchMoves(g, moves, i, tt, a, b) ==
    IF i > Len(moves)
    THEN [r |-> a, tt |-> Insert(tt, g, a)]
    ELSE LET board == make_move(g, moves[i]).g
             child == negamax(board, tt, 0 - b, 0 - a)
             sc    == 0 - child.r
         IN  IF sc >= b
             THEN [r |-> b, tt |-> child.tt]
             ELSE SearchMoves(g, moves, i + 1, child.tt,
                              IF sc > a THEN sc ELSE a, b)

\* negamax with the value of a move that wins at once written to the table
\* before it is returned.
negamaxCachingWins(g, tt, a, b) ==
    IF is_draw(g) THEN [r |-> 0, tt |-> tt]
    ELSE
    LET moves == possible_moves(g)
        wins  == WinningMoves(g, moves)
        got   == Get(tt, g)
        max   == IF got = <<>> THEN max_score(g) ELSE got[1]
        b1    == IF b > max THEN max ELSE b
        won   == score(make_move(g, moves[MinOf(wins)]).g)
    IN  IF wins # {}
        THEN [r |-> won, tt |-> Insert(tt, g, won)]
        ELSE IF b > max /\ a >= b1
        THEN [r |-> b1, tt |-> tt]
        ELSE SearchMoves(g, moves, 1, tt, a, b1)

\* Lines 97-145: draw, winning move, the table's bound, then the search.
negamax(g, tt, a, b) ==
    IF is_draw(g) THEN [r |-> 0, tt |-> tt]
    ELSE
    LET moves == possible_moves(g)
        wins  == WinningMoves(g, moves)
        got   == Get(tt, g)
        max   == IF got = <<>> THEN max_score(g) ELSE got[1]
        b1    == IF b > max THEN max ELSE b
    IN  IF wins # {}
        THEN [r |-> score(make_move(g, moves[MinOf(wins)]).g), tt |-> tt]
        ELSE IF b > max /\ a >= b1
        THEN [r |-> b1, tt |-> tt]
        ELSE SearchMoves(g, moves, 1, tt, a, b1)

----------------------------------------------------------------------------
\* solve (src/src/lib.rs, lines 153-175).

\* One iteration of the loop with alpha kept at the pivot instead of r.
SolveStepPivot(g, tt, a, b) ==
    LET med == a + ((b - a) \div 2)
        n   == negamax(g, tt, med, med + 1)
    IN  [alpha |-> IF n.r <= med THEN a ELSE med,
         beta  |-> IF n.r <= med THEN n.r ELSE b,
         tt    |-> n.tt]

\* Lines 164-171: one iteration of the loop.
SolveStep(g, tt, a, b) ==
    LET med == a + ((b - a) \div 2)
        n   == negamax(g, tt, med, med + 1)
    IN  [alpha |-> IF n.r <= med THEN a ELSE n.r,
         beta  |-> IF n.r <= med THEN n.r ELSE b,
         tt    |-> n.tt]

\* Lines 163-174: the loop, and the value returned.
RECURSIVE SolveLoop(_, _, _, _)
SolveLoop(g, tt, a, b) ==
    IF a < b
    THEN LET s == SolveStep(g, tt, a, b)
         IN  SolveLoop(g, s.tt, s.alpha, s.beta)
    ELSE [r |-> a, tt |-> tt]

solve(g, tt) == SolveLoop(g, tt, min_score(g), max_score(g) + 1)

----------------------------------------------------------------------------
\* move_scores (src/src/lib.rs, lines 181-192).

\* The closure with the sign of the score left as solve returned it.
MoveScoreUnflipped(g, tt, m) ==
    LET s == solve(make_move(g, m).g, tt)
    IN  [pair |-> <<m, s.r>>, tt |-> s.tt]

\* Lines 185-191: the closure applied to one move.
MoveScore(g, tt, m) ==
    LET s == solve(make_move(g, m).g, tt)
    IN  [pair |-> <<m, 0 - s.r>>, tt |-> s.tt]

\* The whole iterator collected: the pairs from the i-th move on.
RECURSIVE MoveScoresFrom(_, _, _)
MoveScoresFrom(g, tt, i) ==
    IF i > Len(possible_moves(g)) THEN <<>>
    ELSE LET s == MoveScore(g, tt, possible_moves(g)[i])
         IN  <<s.pair>> \o MoveScoresFrom(g, s.tt, i + 1)

move_scores(g, tt) == MoveScoresFrom(g, tt, 1)

\* par_move_scores: one task of the parallel evaluator, with its own table.
ParTaskScore(g, m) == <<m, 0 - solve(make_move(g, m).g, EmptyTable).r>>

----------------------------------------------------------------------------
\* The unpruned, uncached reference: 0 for a draw, score() after a move that
\* wins at once, else the maximum over the moves of the negated child value.
\* A state with no move at all is lost for the player to move: min_score.

RECURSIVE FullNegamax(_)
FullNegamax(g) ==
    LET moves == possible_moves(g)
        wins  == {i \in 1..Len(moves) : is_winning_move(g, moves[i])}
        vals  == {0 - FullNegamax(make_move(g, moves[i]).g) : i \in 1..Len(moves)}
    IN  IF is_draw(g) THEN 0
        ELSE IF wins # {}
        THEN score(make_move(g, moves[MinOf(wins)]).g)
        ELSE IF moves = <<>> THEN min_score(g)
        ELSE CHOOSE v \in vals : \A w \in vals : w <= v

----------------------------------------------------------------------------
\* The inputs.

\* Every heap list Nim::new is given: no heap, one heap or two heaps, of
\* at most MaxObjects objects in all.
HeapInputs ==
    {h \in UNION {[1..n -> 0..MaxObjects] : n \in 0..2} :
        SumSeq(h) <= MaxObjects}

\* Every move a caller may hand to make_move, legal or not.
MoveInputs == (0..2) \X (0..(MaxObjects + 1))

NoOutput == [op |-> "none"]

Init ==
    /\ game \in {NimNew(h) : h \in HeapInputs}
    /\ table = EmptyTable
    /\ pc = "idle"
    /\ alpha = 0
    /\ beta = 0
    /\ out = NoOutput
    /\ calls = 0

----------------------------------------------------------------------------
\* The operations.

\* game.make_move(m), the flag and both states kept in out.
MakeMoveCall(m) ==
    /\ pc = "idle"
    /\ game' = make_move(game, m).g
    /\ out' = [op |-> "make_move", m |-> m, ok |-> make_move(game, m).ok,
               before |-> game, after |-> make_move(game, m).g]
    /\ UNCHANGED <<table, pc, alpha, beta, calls>>

\* A move played the way the engine and its callers play: one of possible_moves().
PlayMove == \E m \in Range(possible_moves(game)) : MakeMoveCall(m)

\* Any move at all handed to make_move.
TryMove ==
    /\ game.move_count < MaxCount
    /\ \E m \in MoveInputs : MakeMoveCall(m)

\* The caller replaces its table by a fresh HashMap.
NewTable ==
    /\ pc = "idle"
    /\ table # EmptyTable
    /\ table' = EmptyTable
    /\ out' = NoOutput
    /\ calls' = 0
    /\ UNCHANGED <<game, pc, alpha, beta>>

\* solve(&game, &mut table), lines 157-161: the window before the loop.
SolveBegin ==
    /\ pc = "idle"
    /\ calls < MaxCalls
    /\ calls' = calls + 1
    /\ pc' = "solve"
    /\ alpha' = min_score(game)
    /\ beta' = max_score(game) + 1
    /\ out' = [op |-> "solving", fresh |-> (table = EmptyTable)]
    /\ UNCHANGED <<game, table>>

\* Lines 163-172: one iteration of the loop.
SolveIter ==
    /\ pc = "solve"
    /\ alpha < beta
    /\ LET s == SolveStep(game, table, alpha, beta)
       IN  /\ alpha' = s.alpha
           /\ beta' = s.beta
           /\ table' = s.tt
    /\ UNCHANGED <<game, pc, out, calls>>

\* Line 174: the loop is left and alpha returned.
SolveReturn ==
    /\ pc = "solve"
    /\ alpha >= beta
    /\ pc' = "idle"
    /\ out' = [op |-> "solve", g |-> game, v |-> alpha, fresh |-> out.fresh]
    /\ alpha' = 0
    /\ beta' = 0
    /\ UNCHANGED <<game, table, calls>>

\* solve(&game, &mut t) with t a table that stores nothing.
SolveNoTable ==
    /\ pc = "idle"
    /\ out' = [op |-> "solve_null", g |-> game, v |-> solve(game, NullTable).r]
    /\ UNCHANGED <<game, table, pc, alpha, beta, calls>>

\* move_scores(&game, &mut table): the iterator is made; game and table stay
\* borrowed while it lives.
MoveScoresBegin ==
    /\ pc = "idle"
    /\ calls < MaxCalls
    /\ calls' = calls + 1
    /\ pc' = "iter"
    /\ out' = [op |-> "move_scores", g |-> game, pairs |-> <<>>,
               tabs |-> <<>>, done |-> FALSE]
    /\ UNCHANGED <<game, table, alpha, beta>>

\* next() on the iterator: the closure runs on the next move, or None.
MoveScoresNext ==
    /\ pc = "iter"
    /\ ~out.done
    /\ LET moves == possible_moves(game)
           i     == Len(out.pairs) + 1
       IN  IF i <= Len(moves)
           THEN LET s == MoveScore(game, table, moves[i])
                IN  /\ out' = [out EXCEPT !.pairs = Append(@, s.pair),
                                          !.tabs = Append(@, table)]
                    /\ table' = s.tt
           ELSE /\ out' = [out EXCEPT !.done = TRUE]
                /\ table' = table
    /\ UNCHANGED <<game, pc, alpha, beta, calls>>

\* The iterator is dropped, exhausted or not.
MoveScoresDrop ==
    /\ pc = "iter"
    /\ pc' = "idle"
    /\ UNCHANGED <<game, table, alpha, beta, out, calls>>

\* par_move_scores(&game): one task per root move is handed to the pool.
ParBegin ==
    /\ pc = "idle"
    /\ pc' = "par"
    /\ out' = [op |-> "par", g |-> game,
               pending |-> 1..Len(possible_moves(game)), pairs |-> {}]
    /\ UNCHANGED <<game, table, alpha, beta, calls>>

\* One task finishes, in any order, and its pair is collected.
ParTask ==
    /\ pc = "par"
    /\ \E i \in out.pending :
          out' = [out EXCEPT !.pending = @ \ {i},
                             !.pairs = @ \cup {ParTaskScore(game, possible_moves(game)[i])}]
    /\ UNCHANGED <<game, table, pc, alpha, beta, calls>>

\* Every task has finished: the collection is returned.
ParCollect ==
    /\ pc = "par"
    /\ out.pending = {}
    /\ pc' = "idle"
    /\ UNCHANGED <<game, table, alpha, beta, out, calls>>

Next ==
    \/ PlayMove
    \/ NewTable
    \/ SolveBegin
    \/ SolveIter
    \/ SolveReturn
    \/ SolveNoTable
    \/ MoveScoresBegin
    \/ MoveScoresNext
    \/ MoveScoresDrop
    \/ ParBegin
    \/ ParTask
    \/ ParCollect

Spec == Init /\ [][Next]_vars

\* solve alone, run to completion: once entered, the loop's steps are taken.
NextLoop ==
    \/ PlayMove
    \/ NewTable
    \/ SolveBegin
    \/ SolveIter
    \/ SolveReturn

\* Weak fairness of SolveIter: WF_vars(SolveIter) with ENABLED <<SolveIter>>_vars
\* written out as the guard of SolveIter (SolveStep is defined for every
\* state, and C8_StepShrinks shows that the step changes alpha or beta).
FairSolveIter ==
    \/ []<>(~(pc = "solve" /\ alpha < beta))
    \/ []<><<SolveIter>>_vars

SpecLoop ==
    /\ Init
    /\ [][NextLoop]_vars
    /\ FairSolveIter
    /\ WF_vars(SolveReturn)

\* make_move fed with arbitrary moves.
NextMoves == TryMove

SpecMoves == Init /\ [][NextMoves]_vars

----------------------------------------------------------------------------
\* Helpers of the properties.

Moves(g) == possible_moves(g)

HasWinningMove(g) == \E m \in Range(Moves(g)) : is_winning_move(g, m)

RECURSIVE BitXor(_, _)
BitXor(x, y) ==
    IF x = 0 THEN y
    ELSE IF y = 0 THEN x
    ELSE (((x % 2) + (y % 2)) % 2) + (2 * BitXor(x \div 2, y \div 2))

RECURSIVE NimSum(_)
NimSum(heaps) ==
    IF heaps = <<>> THEN 0 ELSE BitXor(Head(heaps), NimSum(Tail(heaps)))

Keys(tt) == DOMAIN tt.map

----------------------------------------------------------------------------
\* C1: solve on a state with a fresh HashMap returns exactly the value of the
\* unpruned, uncached negamax traversal of that state.
C1_SolveIsFullNegamax ==
    (out.op = "solve" /\ out.fresh) => out.v = FullNegamax(out.g)

\* C1 witness: solve returned a non-zero value of a state that has moves but
\* no move that wins at once, so the search and the table were at work.
C1_Witness ==
    /\ out.op = "solve"
    /\ out.fresh
    /\ Moves(out.g) # <<>>
    /\ ~HasWinningMove(out.g)
    /\ out.v # 0
    /\ Keys(table) # {}

\* C2: when the iterator of move_scores is exhausted it has yielded one pair
\* per possible move, in the order of possible_moves(), and each pair (m, s)
\* has s = -solve(g', t), g' the state after m and t the table as the moves
\* before left it; the pairs yielded so far satisfy the same at any time.
C2_MoveScores ==
    out.op = "move_scores" =>
        /\ Len(out.pairs) <= Len(Moves(out.g))
        /\ out.done => Len(out.pairs) = Len(Moves(out.g))
        /\ \A i \in 1..Len(out.pairs) :
              LET m  == Moves(out.g)[i]
                  s  == solve(make_move(out.g, m).g, out.tabs[i])
                  t2 == IF i < Len(out.pairs) THEN out.tabs[i + 1] ELSE table
              IN  /\ out.pairs[i] = <<m, 0 - s.r>>
                  /\ t2 = s.tt

\* C2 witness: an exhausted iterator over at least two moves, with a table
\* that grew between the moves and a score that is not zero.
C2_Witness ==
    /\ out.op = "move_scores"
    /\ out.done
    /\ Len(out.pairs) >= 2
    /\ out.tabs[1] # out.tabs[2]
    /\ \E i \in 1..Len(out.pairs) : out.pairs[i][2] # 0

\* C3: once every task of the parallel evaluator has finished, the set of its
\* pairs is the set of pairs the sequential move_scores yields for the same
\* state, whatever the shared table holds when the sequential one starts.
C3_ParallelIsSequential ==
    (out.op = "par" /\ out.pending = {}) =>
        /\ out.pairs = Range(move_scores(out.g, table))
        /\ out.pairs = Range(move_scores(out.g, EmptyTable))

\* C3 witness: the parallel evaluator finished on a state with at least two
\* moves, not all scored alike, while the shared table already held entries.
C3_Witness ==
    /\ out.op = "par"
    /\ out.pending = {}
    /\ Len(Moves(out.g)) >= 2
    /\ Cardinality({p[2] : p \in out.pairs}) >= 2
    /\ Keys(table) # {}

\* C4: solve with the table that stores nothing returns what solve with a
\* fresh HashMap returns.
C4_BackendIndependent ==
    out.op = "solve_null" => out.v = solve(out.g, EmptyTable).r

\* C4 witness: solve ran without a table on a state for which the HashMap
\* run does fill its table, and returned a non-zero value.
C4_Witness ==
    /\ out.op = "solve_null"
    /\ Keys(solve(out.g, EmptyTable).tt) # {}
    /\ out.v # 0

\* C5: solve on an initial Nim position with at least one object is
\* positive when the XOR of the heap sizes is not zero and negative when it
\* is zero.
C5_NimSign ==
    (out.op = "solve" /\ out.g.move_count = 0 /\ out.g.max_score >= 1) =>
        /\ NimSum(out.g.heaps) # 0 => out.v > 0
        /\ NimSum(out.g.heaps) = 0 => out.v < 0

\* C6: make_move(m) returns true and changes the state exactly when m is one
\* of possible_moves(); otherwise it returns false and changes nothing.
C6_MakeMoveIffPossible ==
    out.op = "make_move" =>
        /\ out.ok <=> (out.m \in Range(Moves(out.before)))
        /\ out.ok => out.after # out.before
        /\ ~out.ok => out.after = out.before

\* In the HashMap table has(s) holds exactly for the states passed to insert,
\* and get(s) is present exactly when has(s) holds.
C7_HasIffInserted ==
    \A s \in Keys(table) \cup table.ins \cup {game} :
        /\ Has(table, s) <=> s \in table.ins
        /\ (Get(table, s) # <<>>) <=> Has(table, s)

\* No step on a table removes a state it holds (NewTable makes another table).
C7_NeverRemoved ==
    [][NewTable \/ \A s \in Keys(table) : Has(table', s)]_vars

\* C7: in the HashMap table, has(s) holds exactly for the states passed to
\* insert, get(s) is present exactly when has(s) holds, and no operation on
\* the table removes a state it holds.
C7_Table == []C7_HasIffInserted /\ C7_NeverRemoved

\* C7 witness: the table holds several states after a move_scores iterator ran to its end.
C7_Witness ==
    /\ Cardinality(Keys(table)) >= 3
    /\ out.op = "move_scores"
    /\ out.done

\* The iteration about to run lowers beta and keeps alpha, or raises alpha
\* and keeps beta.
C8_StepShrinks ==
    (pc = "solve" /\ alpha < beta) =>
        LET s == SolveStep(game, table, alpha, beta)
        IN  \/ s.beta < beta /\ s.alpha = alpha
            \/ s.alpha > alpha /\ s.beta = beta

\* Every iteration taken makes beta - alpha strictly smaller.
C8_WindowShrinks ==
    [][SolveIter => (beta' - alpha' < beta - alpha)]_vars

\* C8: every iteration of solve's loop either lowers beta or raises alpha,
\* so beta - alpha strictly decreases, and the loop is left: solve returns.
C8_SolveTerminates ==
    /\ []C8_StepShrinks
    /\ C8_WindowShrinks
    /\ ((pc = "solve") ~> (pc = "idle"))

\* C8 witness: the loop is in its third iteration or later: both bounds have
\* moved and the window is still open.
C8_Witness ==
    /\ pc = "solve"
    /\ alpha < beta
    /\ alpha > min_score(game)
    /\ beta < max_score(game) + 1

C10_UpperBounds ==
    \A s \in Keys(table) : table.map[s] >= FullNegamax(s)

\* C10 witness: the table holds an entry strictly above the exact value and
\* an entry equal to it.
C10_Witness ==
    /\ \E s \in Keys(table) : table.map[s] > FullNegamax(s)
    /\ \E s \in Keys(table) : table.map[s] = FullNegamax(s)

====
